---- MODULE Spec2Model ----
(***************************************************************************)
(* A model of pySudoers.py: the migration of per-principal rules from the  *)
(* sudoers file into fragment files under sudoers.d.                       *)
(*                                                                         *)
(* Text is modelled as sequences of one-character strings, so that the     *)
(* regular expression, strip(), lower(), split()/join() and the substring  *)
(* test of the source are computed, not assumed.  A file of the fragment   *)
(* directory is one such text (newlines included); the sudoers file is a   *)
(* sequence of raw lines (each without its terminating newline).           *)
(***************************************************************************)
EXTENDS Naturals, Sequences, FiniteSets, TLC

-----------------------------------------------------------------------------
(* Characters *)

NL == "\n"

IsSpace(c) == c \in {" ", NL}

UpperCase == <<"A","B","C","D","E","F","G","H","I","J","K","L","M",
               "N","O","P","Q","R","S","T","U","V","W","X","Y","Z">>

LowerCase == <<"a","b","c","d","e","f","g","h","i","j","k","l","m",
               "n","o","p","q","r","s","t","u","v","w","x","y","z">>

Digits == {"0","1","2","3","4","5","6","7","8","9"}

Range(f) == {f[x] : x \in DOMAIN f}

\* str.lower() on one character
LowerChar(c) ==
  IF \E n \in DOMAIN UpperCase : UpperCase[n] = c
    THEN LowerCase[CHOOSE n \in DOMAIN UpperCase : UpperCase[n] = c]
    ELSE c

\* str.lower()
Lower(s) == [n \in 1..Len(s) |-> LowerChar(s[n])]

Drop(s, n) == SubSeq(s, n + 1, Len(s))

HasPrefix(s, p) == Len(s) >= Len(p) /\ SubSeq(s, 1, Len(p)) = p

\* str.strip(): leading and trailing whitespace removed
RECURSIVE LStrip(_)
LStrip(s) == IF s # <<>> /\ IsSpace(s[1]) THEN LStrip(Tail(s)) ELSE s

RECURSIVE RStrip(_)
RStrip(s) ==
  IF s # <<>> /\ IsSpace(s[Len(s)]) THEN RStrip(SubSeq(s, 1, Len(s) - 1)) ELSE s

Strip(s) == RStrip(LStrip(s))

\* str.split(): the maximal runs of non-whitespace characters, in order
RECURSIVE SplitFrom(_, _, _)
SplitFrom(s, word, acc) ==
  IF s = <<>>
    THEN IF word = <<>> THEN acc ELSE Append(acc, word)
    ELSE IF IsSpace(s[1])
      THEN SplitFrom(Tail(s), <<>>, IF word = <<>> THEN acc ELSE Append(acc, word))
      ELSE SplitFrom(Tail(s), Append(word, s[1]), acc)

Split(s) == SplitFrom(s, <<>>, <<>>)

\* ' '.join(words)
RECURSIVE Join(_)
Join(words) ==
  IF words = <<>> THEN <<>>
  ELSE IF Len(words) = 1 THEN words[1]
  ELSE words[1] \o <<" ">> \o Join(Tail(words))

\* ' '.join(text.lower().split())
Normalize(text) == Join(Split(Lower(text)))

\* re.sub(r'#.*', '', text): '.' does not match a newline, so each comment
\* runs from its '#' to the end of its line and the newline is kept
RECURSIVE SubComments(_, _)
SubComments(s, inComment) ==
  IF s = <<>> THEN <<>>
  ELSE IF s[1] = NL THEN <<NL>> \o SubComments(Tail(s), FALSE)
  ELSE IF inComment \/ s[1] = "#" THEN SubComments(Tail(s), TRUE)
  ELSE <<s[1]>> \o SubComments(Tail(s), FALSE)

StripComments(text) == SubComments(text, FALSE)

\* Python's  needle in haystack  on strings
Contains(haystack, needle) ==
  \E k \in 0..Len(haystack) :
    /\ k + Len(needle) <= Len(haystack)
    /\ SubSeq(haystack, k + 1, k + Len(needle)) = needle

-----------------------------------------------------------------------------
(* rule_regex *)

IsNameStart(c) == c \in Range(LowerCase) \cup {"_"}

IsNameChar(c) == c \in Range(LowerCase) \cup Digits \cup {"_", "-"}

\* the longest prefix of s made of characters satisfying [a-z0-9_\-]
RECURSIVE NameRun(_)
NameRun(s) ==
  IF s # <<>> /\ IsNameChar(s[1]) THEN <<s[1]>> \o NameRun(Tail(s)) ELSE <<>>

\* group 1, (\%?[a-z_][a-z0-9_\-]*), matched greedily at the start of s;
\* <<>> when the group cannot match there
Group1(s) ==
  LET rest == IF s # <<>> /\ s[1] = "%" THEN Tail(s) ELSE s
      mark == IF s # <<>> /\ s[1] = "%" THEN <<"%">> ELSE <<>>
  IN IF rest # <<>> /\ IsNameStart(rest[1])
       THEN mark \o <<rest[1]>> \o NameRun(Tail(rest))
       ELSE <<>>

LitAll == <<"A","L","L","=","(","A","L","L",")">>

LitColonAll == <<":","A","L","L">>

LitNopasswd == <<"N","O","P","A","S","S","W","D",":"," ","A","L","L">>

\* the remainders of s after an optional literal  (lit)?
OptLit(s, lit) == {s} \cup (IF HasPrefix(s, lit) THEN {Drop(s, Len(lit))} ELSE {})

\* the remainders of s after  \s+  (one or more, any number the run allows)
Spaces(s) == {Drop(s, n) : n \in {m \in 1..Len(s) : \A j \in 1..m : IsSpace(s[j])}}

\* the remainders of s after the optional group  (\s+NOPASSWD\: ALL)?
OptNopasswd(s) ==
  {s} \cup {Drop(r, Len(LitNopasswd)) : r \in {q \in Spaces(s) : HasPrefix(q, LitNopasswd)}}

\* (\s+.*)?$ : nothing left, or whitespace followed by anything up to the
\* end (the text matched has no newline in it: it is one stripped line)
TailMatches(s) == s = <<>> \/ (Spaces(s) # {} /\ \A n \in 1..Len(s) : s[n] # NL)

\* rule_regex.match(s) is not None
RuleMatches(s) ==
  /\ Group1(s) # <<>>
  /\ \E r1 \in Spaces(Drop(s, Len(Group1(s)))) :
       /\ HasPrefix(r1, LitAll)
       /\ \E r2 \in OptLit(Drop(r1, Len(LitAll)), LitColonAll) :
            \E r3 \in OptNopasswd(r2) : TailMatches(r3)

\* match.group(1)
user_or_group(s) == Group1(s)

-----------------------------------------------------------------------------
(* The texts the model runs on *)

Bob == <<"b","o","b">>

\* "bob ALL=(ALL)"
RuleBob == Bob \o <<" ">> \o LitAll

\* "bob ALL=(ALL) NOPASSWD: ALL"
RuleBobNopasswd == RuleBob \o <<" ">> \o LitNopasswd

\* " bob ALL=(ALL)": the raw line differs from its stripped text
RuleBobPadded == <<" ">> \o RuleBob

\* "bob ALL=(ALL) #x": a rule with a trailing comment
RuleBobComment == RuleBob \o <<" ", "#", "x">>

\* "%ops ALL=(ALL):ALL": a group rule
RuleOps == <<"%","o","p","s"," ">> \o LitAll \o LitColonAll

\* "root ALL=(ALL)"
RuleRoot == <<"r","o","o","t"," ">> \o LitAll

\* "%wheel ALL=(ALL)"
RuleWheel == <<"%","w","h","e","e","l"," ">> \o LitAll

\* "ROOT ALL=(ALL)": the privileged name in upper case
RuleRootUpper == <<"R","O","O","T"," ">> \o LitAll

\* "#c": a line that is no rule
CommentLine == <<"#","c">>

SourceLines == {RuleBob, RuleBobNopasswd, RuleBobPadded, RuleBobComment, RuleOps,
                RuleRoot, RuleWheel, RuleRootUpper, CommentLine}

\* the longest sudoers file of the model, in lines
MaxLines == 2

SourceFiles == UNION {[1..n -> SourceLines] : n \in 0..MaxLines}

File(text) == [kind |-> "file", text |-> text]

\* an entry of the fragment directory that open(.., 'r') cannot read
Unreadable == [kind |-> "dir", text |-> <<>>]

\* entries the fragment directory may hold before the run: a hand-kept file
\* at the path of bob's fragment (a comment line, then bob's rule in another
\* case and spacing), and a subdirectory
Name10Bob == <<"1","0","_","b","o","b">>

NameSub == <<"s","u","b">>

\* "#x\nBob  ALL=(ALL)"
LocalText == <<"#","x",NL,"B","o","b"," "," ">> \o LitAll

InitialEntries == (Name10Bob :> File(LocalText)) @@ (NameSub :> Unreadable)

Restrict(f, S) == [x \in S |-> f[x]]

InitialDirs == {Restrict(InitialEntries, S) : S \in SUBSET DOMAIN InitialEntries}

-----------------------------------------------------------------------------
(* State *)

VARIABLES
  sudoers,        \* the content at the path sudoers_file: a sequence of raw lines
  dir,            \* the fragment directory: file name -> entry
  test_mode,      \* --test
  remove_entries, \* --remove
  same_fs,        \* whether the temporary file and sudoers_file share a filesystem
  pc,             \* the position of the run in create_sudoers_d_files
  lines,          \* the lines the handle opened at line 93 has read so far
  i,              \* how many of them the loop of line 94 has taken
  existing_file,  \* the result of entry_exists_in_sudoers_d for the current line
  returncode,     \* result.returncode of the current line's visudo run
  temp,           \* the content of the temporary file of remove_entry_from_sudoers
  k,              \* how many lines the loop of line 83 has taken
  before,         \* the content of sudoers_file when remove_entry_from_sudoers began
  out,            \* what this run has printed, in order
  ioerror,        \* what raised the IOError that line 142 caught, or NoError
  visudo,         \* the verdicts the external checker has given: content -> status
  second,         \* whether this is the second run of the tool
  out1,           \* what the first run printed
  dir0,           \* the fragment directory when this run began
  sudoers0        \* the content of sudoers_file when this run began

vars == <<sudoers, dir, test_mode, remove_entries, same_fs, pc, lines, i,
          existing_file, returncode, temp, k, before, out, ioerror, visudo,
          second, out1, dir0, sudoers0>>

config == <<test_mode, remove_entries, same_fs>>

history == <<second, out1, dir0, sudoers0>>

NoError == [op |-> "", name |-> <<>>]

\* the exception  e  of line 142: the call that raised it and the file it named
IOError(op, name) == [op |-> op, name |-> name]

None == [tag |-> "None", name |-> <<>>]

Found(name) == [tag |-> "found", name |-> name]

Raised(name) == [tag |-> "raised", name |-> name]

Init ==
  /\ sudoers \in SourceFiles
  /\ dir \in InitialDirs
  /\ test_mode \in BOOLEAN
  /\ remove_entries \in BOOLEAN
  \* only shutil.move reads same_fs, and only a run that removes lines calls it
  /\ same_fs \in (IF remove_entries /\ ~test_mode THEN BOOLEAN ELSE {TRUE})
  /\ pc = "start"
  /\ lines = <<>>
  /\ i = 0
  /\ existing_file = None
  /\ returncode = 0
  /\ temp = <<>>
  /\ k = 0
  /\ before = <<>>
  /\ out = <<>>
  /\ ioerror = NoError
  /\ visudo = <<>>
  /\ second = FALSE
  /\ out1 = <<>>
  /\ dir0 = dir
  /\ sudoers0 = sudoers

-----------------------------------------------------------------------------
(* The values of one iteration of the loop of line 94 *)

line == lines[i]

entry == Strip(line)

\* '--file-prefix', default='10'
file_prefix == <<"1","0">>

\* a faulty variant of ReplacePercent that leaves the group marker in
ReplacePercentKeeps(s) == s

\* user_or_group.replace('%', '')
ReplacePercent(s) == SelectSeq(s, LAMBDA c : c # "%")

\* the file name of lines 109-110, within sudoers_d_dir
FileNameOf(ug) == file_prefix \o <<"_">> \o ReplacePercent(ug)

file_name == FileNameOf(user_or_group(entry))

Excluded == {<<"r","o","o","t">>, <<"%","w","h","e","e","l">>}

\* a faulty variant of NotExcluded that forgets %wheel
NotExcludedRootOnly(ug) == Lower(ug) # <<"r","o","o","t">>

\* user_or_group.lower() not in ['root', '%wheel']
NotExcluded(ug) == Lower(ug) \notin Excluded

Say(msg, arg) == <<msg, arg>>

-----------------------------------------------------------------------------
(* entry_exists_in_sudoers_d *)

\* the orders in which os.listdir may return the names of S
Orders(S) ==
  {o \in [1..Cardinality(S) -> S] : \A m, n \in 1..Cardinality(S) : o[m] = o[n] => m = n}

\* line 67
normalized_entry(e) == Normalize(e)

\* lines 73-74
normalized_file_content(text) == Normalize(StripComments(text))

\* lines 68-77, the directory d listed in the order given
RECURSIVE entry_exists_in_sudoers_d(_, _, _)
entry_exists_in_sudoers_d(e, d, order) ==
  IF order = <<>> THEN None
  ELSE IF d[order[1]].kind # "file" THEN Raised(order[1])
  ELSE IF Contains(normalized_file_content(d[order[1]].text), normalized_entry(e))
    THEN Found(order[1])
  ELSE entry_exists_in_sudoers_d(e, d, Tail(order))

-----------------------------------------------------------------------------
(* create_sudoers_d_files *)

loop == <<lines, i, existing_file, returncode>>

mutator == <<temp, k, before>>

\* line 93: the sudoers file is opened
OpenSudoers ==
  /\ pc = "start"
  /\ pc' = "for"
  /\ lines' = <<>>
  /\ i' = 0
  /\ UNCHANGED <<sudoers, dir, config, existing_file, returncode, mutator, out,
                 ioerror, visudo, history>>

\* what the file behind the handle of line 93 holds: after os.rename the
\* handle is still on the file that was opened, which nothing writes; a
\* copy over the sudoers file writes into the very file the handle is on
Opened == IF same_fs THEN sudoers0 ELSE sudoers

\* how many lines one read of the handle's buffer brings in
ChunkLines == 1

\* line 94: the lines read are used up and the handle reads on from its
\* offset in the file, which is where its last read ended
ReadAhead ==
  /\ pc = "for"
  /\ i = Len(lines)
  /\ Len(lines) < Len(Opened)
  /\ lines' = lines \o SubSeq(Opened, Len(lines) + 1,
                              IF Len(lines) + ChunkLines < Len(Opened)
                                THEN Len(lines) + ChunkLines ELSE Len(Opened))
  /\ UNCHANGED <<sudoers, dir, config, pc, i, existing_file, returncode, mutator,
                 out, ioerror, visudo, history>>

\* lines 93, 142-143: the sudoers file cannot be opened
OpenSudoersFails ==
  /\ pc = "start"
  /\ pc' = "done"
  /\ ioerror' = IOError("open", <<"sudoers_file">>)
  /\ out' = Append(out, Say("Error opening sudoers file", <<"sudoers_file">>))
  /\ UNCHANGED <<sudoers, dir, config, loop, mutator, visudo, history>>

\* line 94: the handle finds nothing at its offset
EndOfFile ==
  /\ pc = "for"
  /\ i = Len(lines)
  /\ Len(lines) >= Len(Opened)
  /\ pc' = "done"
  /\ UNCHANGED <<sudoers, dir, config, loop, mutator, out, ioerror, visudo, history>>

\* lines 94-96: the next line does not match rule_regex
NoMatch ==
  /\ pc = "for"
  /\ i < Len(lines)
  /\ ~RuleMatches(Strip(lines[i + 1]))
  /\ i' = i + 1
  /\ UNCHANGED <<sudoers, dir, config, pc, lines, existing_file, returncode,
                 mutator, out, ioerror, visudo, history>>

\* lines 94-104, 138-140: the next line names root or %wheel
SkipAccount ==
  /\ pc = "for"
  /\ i < Len(lines)
  /\ RuleMatches(Strip(lines[i + 1]))
  /\ ~NotExcluded(user_or_group(Strip(lines[i + 1])))
  /\ i' = i + 1
  /\ out' = out \o << Say("Processing line", Strip(lines[i + 1])),
                      Say("Skipping account", user_or_group(Strip(lines[i + 1]))) >>
  /\ UNCHANGED <<sudoers, dir, config, pc, lines, existing_file, returncode,
                 mutator, ioerror, visudo, history>>

\* a faulty variant of ProcessLine that does not ask whether the line matched
ProcessLineUnmatched ==
  /\ pc = "for"
  /\ i < Len(lines)
  /\ NotExcluded(user_or_group(Strip(lines[i + 1])))
  /\ i' = i + 1
  /\ pc' = "exists"
  /\ out' = Append(out, Say("Processing line", Strip(lines[i + 1])))
  /\ UNCHANGED <<sudoers, dir, config, lines, existing_file, returncode,
                 mutator, ioerror, visudo, history>>

\* lines 94-104: the next line is a rule to look for in sudoers.d
ProcessLine ==
  /\ pc = "for"
  /\ i < Len(lines)
  /\ RuleMatches(Strip(lines[i + 1]))
  /\ NotExcluded(user_or_group(Strip(lines[i + 1])))
  /\ i' = i + 1
  /\ pc' = "exists"
  /\ out' = Append(out, Say("Processing line", Strip(lines[i + 1])))
  /\ UNCHANGED <<sudoers, dir, config, lines, existing_file, returncode,
                 mutator, ioerror, visudo, history>>

\* lines 105-106: the scan returns
EntryExists ==
  /\ pc = "exists"
  /\ \E order \in Orders(DOMAIN dir) :
       LET result == entry_exists_in_sudoers_d(entry, dir, order)
       IN /\ result.tag # "raised"
          /\ existing_file' = result
  /\ pc' = "if"
  /\ UNCHANGED <<sudoers, dir, config, lines, i, returncode, mutator, out,
                 ioerror, visudo, history>>

\* lines 70, 142-143: an entry of sudoers.d cannot be opened for reading
EntryExistsRaises ==
  /\ pc = "exists"
  /\ \E order \in Orders(DOMAIN dir) :
       LET result == entry_exists_in_sudoers_d(entry, dir, order)
       IN /\ result.tag = "raised"
          /\ ioerror' = IOError("read", result.name)
          /\ out' = Append(out, Say("Error opening sudoers file", result.name))
  /\ pc' = "done"
  /\ UNCHANGED <<sudoers, dir, config, loop, mutator, visudo, history>>

\* lines 107, 135-137: the rule is already in a file of sudoers.d
AlreadyExists ==
  /\ pc = "if"
  /\ existing_file # None
  /\ out' = Append(out, Say("already exists, skipping", existing_file.name))
  /\ pc' = "for"
  /\ UNCHANGED <<sudoers, dir, config, loop, mutator, ioerror, visudo, history>>

\* lines 107-115 in test mode
WouldCreate ==
  /\ pc = "if"
  /\ existing_file = None
  /\ test_mode
  /\ out' = Append(out, Say("Would create file", file_name))
  /\ pc' = "for"
  /\ UNCHANGED <<sudoers, dir, config, loop, mutator, ioerror, visudo, history>>

\* a faulty variant of WriteFile that writes in test mode too
WriteFileInTestMode ==
  /\ pc = "if"
  /\ existing_file = None
  /\ dir' = (file_name :> File(entry)) @@ dir
  /\ out' = out \o << Say("Creating file", file_name), Say("Checking file with visudo", file_name) >>
  /\ pc' = "visudo"
  /\ UNCHANGED <<sudoers, config, loop, mutator, ioerror, visudo, history>>

\* lines 107-117: the rule is written to its file
WriteFile ==
  /\ pc = "if"
  /\ existing_file = None
  /\ ~test_mode
  /\ dir' = (file_name :> File(entry)) @@ dir
  /\ out' = out \o << Say("Creating file", file_name), Say("Checking file with visudo", file_name) >>
  /\ pc' = "visudo"
  /\ UNCHANGED <<sudoers, config, loop, mutator, ioerror, visudo, history>>

\* lines 116, 142-143: the file cannot be opened for writing
WriteFileFails ==
  /\ pc = "if"
  /\ existing_file = None
  /\ ~test_mode
  /\ out' = out \o << Say("Creating file", file_name),
                      Say("Error opening sudoers file", file_name) >>
  /\ ioerror' = IOError("write", file_name)
  /\ pc' = "done"
  /\ UNCHANGED <<sudoers, dir, config, loop, mutator, visudo, history>>

\* lines 122-123: visudo -cf file_name; the checker is a function of the
\* content it is given, any function
Visudo ==
  /\ pc = "visudo"
  /\ IF dir[file_name].text \in DOMAIN visudo
       THEN /\ returncode' = visudo[dir[file_name].text]
            /\ UNCHANGED visudo
       ELSE /\ returncode' \in {0, 1}
            /\ visudo' = (dir[file_name].text :> returncode') @@ visudo
  /\ pc' = "result"
  /\ UNCHANGED <<sudoers, dir, config, lines, i, existing_file, mutator, out,
                 ioerror, history>>

\* a faulty variant of DeleteFile that reports the error and keeps the file
DeleteFileKeeps ==
  /\ pc = "result"
  /\ returncode # 0
  /\ out' = Append(out, Say("Error, deleting file", file_name))
  /\ pc' = "for"
  /\ UNCHANGED <<sudoers, dir, config, loop, mutator, ioerror, visudo, history>>

\* lines 126-129: visudo found an error and the file is deleted
DeleteFile ==
  /\ pc = "result"
  /\ returncode # 0
  /\ dir' = Restrict(dir, DOMAIN dir \ {file_name})
  /\ out' = Append(out, Say("Error, deleting file", file_name))
  /\ pc' = "for"
  /\ UNCHANGED <<sudoers, config, loop, mutator, ioerror, visudo, history>>

\* lines 126-130: visudo passed and --remove was not given
KeepLine ==
  /\ pc = "result"
  /\ returncode = 0
  /\ ~remove_entries
  /\ pc' = "for"
  /\ UNCHANGED <<sudoers, dir, config, loop, mutator, out, ioerror, visudo, history>>

\* a faulty variant of RemoveEntry that does not look at visudo's result
RemoveEntryAnyResult ==
  /\ pc = "result"
  /\ remove_entries
  /\ out' = Append(out, Say("Removing line", <<"sudoers_file">>))
  /\ temp' = <<>>
  /\ k' = 0
  /\ before' = sudoers
  /\ pc' = "copy"
  /\ UNCHANGED <<sudoers, dir, config, loop, ioerror, visudo, history>>

\* lines 130-134, 81-82: remove_entry_from_sudoers is called and opens its files
RemoveEntry ==
  /\ pc = "result"
  /\ returncode = 0
  /\ remove_entries
  /\ out' = Append(out, Say("Removing line", <<"sudoers_file">>))
  /\ temp' = <<>>
  /\ k' = 0
  /\ before' = sudoers
  /\ pc' = "copy"
  /\ UNCHANGED <<sudoers, dir, config, loop, ioerror, visudo, history>>

-----------------------------------------------------------------------------
(* remove_entry_from_sudoers *)

\* a faulty variant of Kept that compares the line as read, not stripped
KeptRaw(raw, e) == raw # e

\* line 84
Kept(raw, e) == Strip(raw) # e

\* lines 83-85: one line of the sudoers file is copied, or left out
CopyLine ==
  /\ pc = "copy"
  /\ k < Len(sudoers)
  /\ k' = k + 1
  /\ temp' = IF Kept(sudoers[k + 1], entry) THEN Append(temp, sudoers[k + 1]) ELSE temp
  /\ UNCHANGED <<sudoers, dir, config, pc, loop, before, out, ioerror, visudo, history>>

\* line 88, shutil.move on one filesystem: os.rename puts the temporary
\* file in the place of the sudoers file
MoveRename ==
  /\ pc = "copy"
  /\ k = Len(sudoers)
  /\ same_fs
  /\ sudoers' = temp
  /\ temp' = <<>>
  /\ pc' = "for"
  /\ UNCHANGED <<dir, config, loop, k, before, out, ioerror, visudo, history>>

\* line 88, shutil.move across filesystems: os.rename fails and the
\* temporary file is copied over the sudoers file, which is first opened
\* for writing and so truncated
MoveTruncate ==
  /\ pc = "copy"
  /\ k = Len(sudoers)
  /\ ~same_fs
  /\ sudoers' = <<>>
  /\ pc' = "move"
  /\ UNCHANGED <<dir, config, loop, mutator, out, ioerror, visudo, history>>

\* line 88, shutil.move across filesystems: the content is written and the
\* temporary file is unlinked
MoveCopy ==
  /\ pc = "move"
  /\ sudoers' = temp
  /\ temp' = <<>>
  /\ pc' = "for"
  /\ UNCHANGED <<dir, config, loop, k, before, out, ioerror, visudo, history>>

\* lines 82-88, 142-143: a read or write of remove_entry_from_sudoers raises
RemoveEntryFails ==
  /\ pc \in {"copy", "move"}
  /\ ioerror' = IOError("remove", <<"temp">>)
  /\ out' = Append(out, Say("Error opening sudoers file", <<"temp">>))
  /\ pc' = "done"
  /\ UNCHANGED <<sudoers, dir, config, loop, mutator, visudo, history>>

-----------------------------------------------------------------------------
(* The tool is run, and after a run that raised nothing it may be run once *)
(* more with the same arguments                                            *)

RunAgain ==
  /\ pc = "done"
  /\ ioerror = NoError
  /\ ~second
  /\ second' = TRUE
  /\ out1' = out
  /\ dir0' = dir
  /\ sudoers0' = sudoers
  /\ pc' = "start"
  /\ lines' = <<>>
  /\ i' = 0
  /\ existing_file' = None
  /\ returncode' = 0
  /\ temp' = <<>>
  /\ k' = 0
  /\ before' = <<>>
  /\ out' = <<>>
  /\ ioerror' = NoError
  /\ UNCHANGED <<sudoers, dir, config, visudo>>

Next ==
  \/ OpenSudoers
  \/ OpenSudoersFails
  \/ ReadAhead
  \/ EndOfFile
  \/ NoMatch
  \/ SkipAccount
  \/ ProcessLine
  \/ EntryExists
  \/ EntryExistsRaises
  \/ AlreadyExists
  \/ WouldCreate
  \/ WriteFile
  \/ WriteFileFails
  \/ Visudo
  \/ DeleteFile
  \/ KeepLine
  \/ RemoveEntry
  \/ CopyLine
  \/ MoveRename
  \/ MoveTruncate
  \/ MoveCopy
  \/ RemoveEntryFails
  \/ RunAgain

Spec == Init /\ [][Next]_vars

-----------------------------------------------------------------------------
(* Properties *)

\* the positions in o of the messages msg
Said(o, msg) == {n \in 1..Len(o) : o[n][1] = msg}

\* the sudoers file with every line left out whose stripped text is e
Without(file, e) == SelectSeq(file, LAMBDA raw : Strip(raw) # e)

\* the first whitespace-delimited word of a raw line, in lower case, is
\* root or %wheel
NamesExcluded(raw) == Split(raw) # <<>> /\ Lower(Split(raw)[1]) \in Excluded

\* C1 as stated: when the run has ended, no path exists for which this run
\* printed that visudo found an error.
C1_FailedPathAbsentAtEnd ==
  pc = "done" =>
    \A n \in Said(out, "Error, deleting file") : out[n][2] \notin DOMAIN dir

\* C1 as amended: between two lines and at the end of the run, a path for
\* which visudo found an error exists only if a later line of the run wrote
\* it again; so no file whose last check by this run failed is present.
C1_FailedFragmentGoneAtLineBoundary ==
  pc \in {"for", "done"} =>
    \A n \in Said(out, "Error, deleting file") :
      out[n][2] \in DOMAIN dir =>
        \E m \in Said(out, "Creating file") : m > n /\ out[m][2] = out[n][2]

\* a run has ended in which visudo rejected a file, and the file is gone
C1_Witness ==
  /\ pc = "done"
  /\ \E n \in Said(out, "Error, deleting file") : out[n][2] \notin DOMAIN dir

\* C2: in test mode the fragment directory and the sudoers file stay what
\* they were when the run began, visudo is never run and
\* remove_entry_from_sudoers is never called.
C2_TestModeNoEffects ==
  test_mode =>
    /\ dir = dir0
    /\ sudoers = sudoers0
    /\ visudo = <<>>
    /\ pc \notin {"visudo", "result", "copy", "move"}
    /\ Said(out, "Checking file with visudo") = {}
    /\ Said(out, "Removing line") = {}

\* a test-mode run with --remove has ended after finding a rule to create
C2_Witness ==
  /\ test_mode
  /\ remove_entries
  /\ pc = "done"
  /\ Said(out, "Would create file") # {}

\* C3 as stated, read in its favour: after a first run without --remove in
\* which nothing raised and visudo rejected nothing, the second run writes
\* no file.
C3_SecondRunCreatesNothing ==
  ( /\ second
    /\ ~remove_entries
    /\ ~test_mode
    /\ Said(out1, "Error, deleting file") = {}
    /\ Said(out1, "Error opening sudoers file") = {} )
  => Said(out, "Creating file") = {}

\* C4: while the line being processed names root or %wheel in any letter
\* case, no step changes the fragment directory, the sudoers file or the
\* temporary file, and the run is neither at visudo nor in
\* remove_entry_from_sudoers.
C4_PrivilegeExclusion ==
  [][ (i >= 1 /\ i <= Len(lines) /\ NamesExcluded(lines[i])) =>
        /\ dir' = dir
        /\ sudoers' = sudoers
        /\ temp' = temp
        /\ pc \notin {"visudo", "result", "copy", "move"} ]_vars

\* a run that writes and removes has skipped a root or %wheel rule
C4_Witness ==
  /\ pc = "for"
  /\ i >= 1
  /\ NamesExcluded(lines[i])
  /\ RuleMatches(Strip(lines[i]))
  /\ ~test_mode
  /\ remove_entries

\* C5 as stated: a file that exists at the derived path when the rule is
\* about to be written keeps its content.
C5_NoClobber ==
  [][ (pc = "if" /\ file_name \in DOMAIN dir) =>
        (file_name \in DOMAIN dir' /\ dir'[file_name] = dir[file_name]) ]_vars

\* C6: remove_entry_from_sudoers runs only with --remove, outside test mode,
\* after the line's file was written and then visudo passed it, the file
\* being there with the rule in it; without --remove the sudoers file stays
\* what it was when the run began.
C6_RemovalGating ==
  /\ pc \in {"copy", "move"} =>
       /\ remove_entries
       /\ ~test_mode
       /\ returncode = 0
       /\ file_name \in DOMAIN dir
       /\ dir[file_name] = File(entry)
       /\ entry \in DOMAIN visudo
       /\ visudo[entry] = 0
       /\ Len(out) >= 4
       /\ SubSeq(out, Len(out) - 3, Len(out)) =
            << Say("Processing line", entry), Say("Creating file", file_name),
               Say("Checking file with visudo", file_name),
               Say("Removing line", <<"sudoers_file">>) >>
  /\ ~remove_entries => sudoers = sudoers0

\* remove_entry_from_sudoers is copying the sudoers file
C6_Witness == pc = "copy" /\ k = 1

C8_RemovalAtomicity ==
  /\ pc = "copy" => sudoers = before
  /\ (pc \in {"copy", "move"} \/ (pc = "done" /\ ioerror.op = "remove")) =>
       sudoers \in {before, Without(before, entry)}

\* C9 as stated: a run in which writing a fragment or removing a line
\* raised has still taken every line of the sudoers file.
C9_PerLineContainment ==
  (pc = "done" /\ ioerror.op \in {"write", "remove"}) => i = Len(sudoers0)

\* C10 as stated: no run ends because an entry of sudoers.d could not be
\* read during the duplicate scan.
C10_ScanRobust == ~(pc = "done" /\ ioerror.op = "read")

\* the file name the rule of a raw line is to get: the prefix, "_", and the
\* first whitespace-delimited word of the line without its leading "%"
ExpectedName(raw) ==
  LET word == Split(raw)[1]
  IN file_prefix \o <<"_">> \o (IF word[1] = "%" THEN Tail(word) ELSE word)

\* C11 as stated: the file written holds the source line as it was read.
C11_ContentIsRawLine ==
  [][ (pc = "if" /\ pc' = "visudo") => dir'[file_name].text = lines[i] ]_vars

\* C11 as amended: the step that writes a rule changes the fragment
\* directory in one file only, named prefix_principal without the group
\* marker, and that file then holds the source line without its leading and
\* trailing whitespace, group marker included; and when visudo has passed it
\* and --remove is off, the file is there with that content and the sudoers
\* file is what it was when the run began.
C11_FragmentNameAndContent ==
  [][ /\ (pc = "if" /\ pc' = "visudo") =>
           /\ ~test_mode
           /\ DOMAIN dir' = DOMAIN dir \cup {ExpectedName(lines[i])}
           /\ \A f \in DOMAIN dir \ {ExpectedName(lines[i])} : dir'[f] = dir[f]
           /\ dir'[ExpectedName(lines[i])] = File(Strip(lines[i]))
           /\ (Split(lines[i])[1][1] = "%") = (dir'[ExpectedName(lines[i])].text[1] = "%")
      /\ (pc = "result" /\ returncode = 0 /\ ~remove_entries) =>
           /\ ExpectedName(lines[i]) \in DOMAIN dir
           /\ dir[ExpectedName(lines[i])] = File(Strip(lines[i]))
           /\ sudoers = sudoers0 ]_vars

\* the group rule was written to 10_ops, passed visudo and was kept
C11_Witness ==
  /\ pc = "for"
  /\ i >= 1
  /\ lines[i] = RuleOps
  /\ ~remove_entries
  /\ <<"1","0","_","o","p","s">> \in DOMAIN dir
  /\ dir[<<"1","0","_","o","p","s">>] = File(RuleOps)
  /\ sudoers = sudoers0

\* C12: while the line being processed does not match rule_regex, no step
\* changes the fragment directory, the sudoers file, the temporary file or
\* the verdicts of visudo, and the run is not at the duplicate scan, the
\* write, visudo or remove_entry_from_sudoers.
C12_NonMatchingNoEffect ==
  [][ (i >= 1 /\ i <= Len(lines) /\ ~RuleMatches(Strip(lines[i]))) =>
        /\ dir' = dir
        /\ sudoers' = sudoers
        /\ temp' = temp
        /\ visudo' = visudo
        /\ pc \in {"for", "done"} ]_vars

\* a run that writes and removes has passed over the comment line
C12_Witness ==
  /\ pc = "for"
  /\ i >= 1
  /\ lines[i] = CommentLine
  /\ ~test_mode
  /\ remove_entries

\* the status with which the process ends: line 143 prints and returns, no
\* line of __main__ calls sys.exit, so the interpreter ends with status 0
\* whatever happened in create_sudoers_d_files
ExitStatus == 0

\* C13 as stated: a run that could not open the sudoers file ends with a
\* failure status, and a run that opened it with the success status.
C13_ExitStatusReflectsOpenFailure ==
  pc = "done" => ((ExitStatus # 0) <=> (ioerror.op = "open"))

\* the NormalizedEntry of the data model: comments stripped, whitespace
\* collapsed, lower case
NormalizedEntry(e) == Normalize(StripComments(e))

\* the files of directory d whose content, comments stripped and
\* normalised, contains the text n
Containing(d, n) ==
  {f \in DOMAIN d : d[f].kind = "file" /\ Contains(Normalize(StripComments(d[f].text)), n)}

\* C14 as stated: the scan returns the name of a file whose normalised
\* content contains the rule's NormalizedEntry if there is such a file, and
\* None if there is none.
C14_DetectorResult ==
  pc = "if" =>
    IF Containing(dir, NormalizedEntry(entry)) = {}
      THEN existing_file = None
      ELSE existing_file.tag = "found"
           /\ existing_file.name \in Containing(dir, NormalizedEntry(entry))

\* C15 as stated: when the scan has found the rule in a file, the next step
\* ends the line: it changes neither the fragment directory nor the sudoers
\* file, runs neither visudo nor remove_entry_from_sudoers, --remove or not;
\* and a rule is written only when no file of the directory contains its
\* NormalizedEntry.
C15_DuplicateSkipTerminal ==
  [][ /\ (pc = "if" /\ existing_file # None) =>
           /\ pc' = "for"
           /\ i' = i
           /\ dir' = dir
           /\ sudoers' = sudoers
           /\ temp' = temp
           /\ visudo' = visudo
      /\ (pc = "if" /\ (pc' = "visudo" \/ dir' # dir)) =>
           Containing(dir, NormalizedEntry(entry)) = {} ]_vars

\* the lines of the sudoers file as this run found it that are no longer
\* in it
RemovedLines == {raw \in Range(sudoers0) : raw \notin Range(sudoers)}

\* C16 as stated: after a run with --remove in which nothing raised, the
\* rule of every line the run removed from the sudoers file is in the text
\* of some file of the fragment directory.
C16_NoRuleLost ==
  (pc = "done" /\ remove_entries /\ ioerror = NoError) =>
    \A raw \in RemovedLines :
      \E f \in DOMAIN dir : dir[f].kind = "file" /\ Contains(dir[f].text, Strip(raw))

\* the entries for which this run printed that it removes their line
RemovedEntries ==
  {out[n][2] : n \in {m \in Said(out, "Processing line") :
                        m + 3 <= Len(out) /\ out[m + 3][1] = "Removing line"}}

\* C17 as stated: a run with --remove in which nothing raised has taken
\* every line of the sudoers file as it was when the run began, once and in
\* order, and leaves that file without exactly the lines whose stripped text
\* is a rule it wrote and visudo passed.
C17_IterationUnaffected ==
  (pc = "done" /\ remove_entries /\ ~test_mode /\ ioerror = NoError) =>
    /\ lines = sudoers0
    /\ i = Len(sudoers0)
    /\ sudoers = SelectSeq(sudoers0, LAMBDA raw : Strip(raw) \notin RemovedEntries)

\* C18 as stated: once the rule of the line in hand is in its file and
\* visudo has passed it, entry_exists_in_sudoers_d finds that rule, whatever
\* order os.listdir lists the directory in.
C18_WriteThenDetect ==
  (pc = "result" /\ returncode = 0) =>
    \A order \in Orders(DOMAIN dir) :
      entry_exists_in_sudoers_d(entry, dir, order).tag = "found"

\* C19, the part of it about deletion: whatever lay in sudoers.d when the
\* run began is still there at every point of the run, whatever visudo
\* returns (the claim adds that its content is the same too).
C19_PreExistingSurvive ==
  \A f \in DOMAIN dir0 : f \in DOMAIN dir

====
